---- MODULE Spec2Model ----
(***************************************************************************)
(* A model of Ising_montecarlo.py: the 2D Ising lattice, the single-flip   *)
(* energy difference, the Metropolis trial, the correlation measurements,  *)
(* the umbrella-sampling window and the WHAM fixed point.                  *)
(*                                                                         *)
(* Numbers.  J, h, k_bias and M0 are drawn from small sets of integers, so *)
(* every energy difference is an integer.  Temperatures are counted in     *)
(* units of 1/ln 2: T = t/ln 2 gives beta = (1/t) ln 2, and for t = 1 the  *)
(* Boltzmann factor exp(-beta*dE) is the rational 2^(-dE).  A uniform draw *)
(* is u/UDen with u in 0..UDen-1, so "draw < exp(-beta*dE)" is decided     *)
(* exactly, in integers.                                                   *)
(***************************************************************************)
EXTENDS Integers, Sequences, FiniteSets, TLC

\* ------------------------------------------------------------------ bounds
\* Largest lattice side of the unbiased Metropolis runs.
MaxL == 2
\* A uniform draw of np.random.random() is one of 0/UDen .. (UDen-1)/UDen.
UDen == 4

\* ------------------------------------------------------------------- state
VARIABLES
    pc,       \* where the running function stands
    lattice,  \* the spin grid: lattice[i][j], i, j in 0..L-1
    J,        \* coupling constant
    h,        \* external field
    beta,     \* inverse temperature: [inf |-> TRUE] or [inf |-> FALSE, n |-> b], b*ln 2
    i,        \* metropolis_step_nb: row of the last trial's site
    j,        \* metropolis_step_nb: column of the last trial's site
    dE,       \* metropolis_step_nb: energy change computed by the last trial
    u,        \* metropolis_step_nb: numerator of the last trial's uniform draw,
              \* -1 when none was drawn
    acc,      \* whether the last trial flipped its site
    L,        \* the lattice size the caller passed
    T,        \* the temperature the caller passed, in units of 1/ln 2
    k_bias,   \* harmonic bias strength
    M0,       \* the window's target magnetization
    n_eq,     \* number of equilibration steps
    n_steps,  \* number of measurement steps
    bins,     \* number of histogram bins
    M,        \* run_window_us: the tracked total spin
    hist,     \* run_window_us: hist[0 .. bins-1]
    cnt,      \* iterations of the current loop completed so far
    idx,      \* the last histogram index computed, -1 before the first
    err,      \* the exception that ended the call, "" when none
    col_idx,  \* measure_column_correlation_nb: the column measured
    sum_m,    \* accumulated magnetization, in units of 1/N
    sum_pair, \* sum_pair[r], in units of 1/N
    sum_shift,\* sum_shift[r], in units of 1/N
    corr_sum, \* corr_sum[r] of the column variant, in units of 1/L
    total_spin,\* the last measurement's total spin
    shift_sum,\* the last measurement's shift_sum[r]
    ret,      \* the value returned, <<>> before the return
    hist_list,\* wham_us: the windows' histograms
    M0_list,  \* wham_us: the windows' target magnetizations
    f,        \* wham_us: the windows' free-energy offsets
    P         \* wham_us: the probability over the grid

trial == <<i, j, dE, u, acc>>
args == <<J, h, L, T, k_bias, M0, n_eq, n_steps, bins, col_idx>>
window == <<M, hist, idx>>
stats == <<sum_m, sum_pair, sum_shift, corr_sum, total_spin, shift_sum>>
wham == <<hist_list, M0_list, f, P>>

vars == <<pc, lattice, beta, cnt, err, ret, trial, args, window, stats, wham>>

\* ---------------------------------------------------------------- helpers
Pow2(n) == IF n <= 0 THEN 1 ELSE 2 ^ n

\* 2^dE is compared with UDen/d only: beyond this exponent the comparison no
\* longer changes (UDen < 2^PowCap), and the power stays a machine integer.
PowCap == 16

Abs(x) == IF x < 0 THEN -x ELSE x

\* lattice.shape[0]
Shape0(lat) == Cardinality(DOMAIN lat)

\* lattice.sum(): the sum of all cells, row by row.
RECURSIVE SumCells(_, _, _)
SumCells(lat, n, k) ==
    IF k = 0 THEN 0
    ELSE lat[(k - 1) \div n][(k - 1) % n] + SumCells(lat, n, k - 1)

total_sum(lat) == SumCells(lat, Shape0(lat), Shape0(lat) * Shape0(lat))

\* The inverse temperatures the engine is driven with: ln 2 and infinity (T = 0).
BetaFinite(b) == [inf |-> FALSE, n |-> b]
BetaInf == [inf |-> TRUE, n |-> 0]

\* The accumulators of the correlation measurements, before they are set up.
NoStats ==
    /\ sum_m = 0 /\ sum_pair = <<>> /\ sum_shift = <<>> /\ corr_sum = <<>>
    /\ total_spin = 0 /\ shift_sum = <<>>

\* The state of wham_us, outside a call of it.
NoWham == hist_list = <<>> /\ M0_list = <<>> /\ f = <<>> /\ P = <<>>

\* ------------------------------------------------------------ the lattice
\* A mutant of init_lattice_nb: randint(-1, 2) leaves a cell at 0.
init_lattice_zero(n) == [(0 .. n - 1) -> [(0 .. n - 1) -> {-1, 0, 1}]]

\* init_lattice_nb(L): every cell independently -1 or +1; the set of the
\* lattices it can return.
init_lattice_nb(n) == [(0 .. n - 1) -> [(0 .. n - 1) -> {-1, 1}]]

\* A mutant of delta_energy_nb: the sign of the result lost.
delta_energy_neg(lat, a, b, Jc, hc) ==
    LET n == Shape0(lat)
        s == lat[a][b]
        nb == lat[(a + 1) % n][b] + lat[(a - 1) % n][b]
              + lat[a][(b + 1) % n] + lat[a][(b - 1) % n]
    IN -2 * s * (Jc * nb + hc)

\* delta_energy_nb(lattice, i, j, J, h)
delta_energy_nb(lat, a, b, Jc, hc) ==
    LET n == Shape0(lat)
        s == lat[a][b]
        nb == lat[(a + 1) % n][b] + lat[(a - 1) % n][b]
              + lat[a][(b + 1) % n] + lat[a][(b - 1) % n]
    IN 2 * s * (Jc * nb + hc)

\* np.random.random() < np.exp(-beta * dE), for dE > 0 (the test is only
\* reached then) and the draw d/UDen: exp(-inf) = 0 admits no draw;
\* beta = ln 2 gives 2^(-dE); beta = -ln 2 gives 2^dE > 1, above every draw.
BoltzmannAccepts(b, e, d) ==
    IF b.inf THEN FALSE
    ELSE IF b.n = 1 THEN d * Pow2(IF e < PowCap THEN e ELSE PowCap) < UDen
    ELSE TRUE

\* A mutant of the acceptance rule: the draw is compared with "<=", so that
\* the draw 0.0 passes exp(-inf) = 0.
accept_le(b, e, d) == e <= 0 \/ (IF b.inf THEN d = 0 ELSE BoltzmannAccepts(b, e, d))

\* The Metropolis criterion of lines 71, 436 and 445:
\* dE <= 0 or np.random.random() < np.exp(-beta * dE)
accept(b, e, d) == e <= 0 \/ BoltzmannAccepts(b, e, d)

\* lattice[i, j] = -lattice[i, j]
flip(lat, a, b) == [lat EXCEPT ![a][b] = -lat[a][b]]

\* ----------------------------------------------- unbiased Metropolis runs
JSet == {-1, 1}
hSet == {-1, 0, 1}
BetaSet == {BetaFinite(1), BetaInf}

InitMC ==
    /\ pc = "metropolis"
    /\ \E n \in 1 .. MaxL : lattice \in init_lattice_nb(n)
    /\ J \in JSet
    /\ h \in hSet
    /\ beta \in BetaSet
    /\ L = Shape0(lattice)
    /\ i = 0 /\ j = 0 /\ dE = 0 /\ u = -1 /\ acc = FALSE
    /\ T = 0 /\ k_bias = 0 /\ M0 = 0 /\ n_eq = 0 /\ n_steps = 0 /\ bins = 0
    /\ M = 0 /\ hist = <<>> /\ idx = -1 /\ cnt = 0 /\ err = ""
    /\ NoStats /\ col_idx = 0 /\ ret = <<>> /\ NoWham

\* One iteration of the loop of metropolis_step_nb (lines 67-72) on lat, at
\* the site (a, b) that randint chose and with the draw d: the lattice after.
trial_result(lat, a, b, d, bt, Jc, hc) ==
    IF accept(bt, delta_energy_nb(lat, a, b, Jc, hc), d) THEN flip(lat, a, b) ELSE lat

\* The draws a trial can see: "or" does not evaluate np.random.random() when
\* dE <= 0, and the draw is then written -1.
Draws(e) == IF e <= 0 THEN {-1} ELSE 0 .. UDen - 1

\* The lattices one trial can leave.
trial_results(lat, bt, Jc, hc) ==
    UNION {{trial_result(lat, p[1], p[2], d, bt, Jc, hc) :
               d \in Draws(delta_energy_nb(lat, p[1], p[2], Jc, hc))} :
           p \in (0 .. Shape0(lat) - 1) \X (0 .. Shape0(lat) - 1)}

RECURSIVE trials(_, _, _, _, _)
trials(S, n, bt, Jc, hc) ==
    IF n = 0 THEN S
    ELSE trials(UNION {trial_results(l, bt, Jc, hc) : l \in S}, n - 1, bt, Jc, hc)

\* metropolis_step_nb(lattice, beta, J, h): the lattices a whole call, L*L
\* trials in sequence, can leave.
metropolis_step_nb(lat, bt, Jc, hc) ==
    trials({lat}, Shape0(lat) * Shape0(lat), bt, Jc, hc)

\* One iteration of the loop of metropolis_step_nb on the running lattice.
metropolis_trial(a, b, d) ==
    /\ pc = "metropolis"
    /\ i' = a /\ j' = b /\ dE' = delta_energy_nb(lattice, a, b, J, h)
    /\ u' = d
    /\ acc' = accept(beta, delta_energy_nb(lattice, a, b, J, h), d)
    /\ lattice' = trial_result(lattice, a, b, d, beta, J, h)
    /\ UNCHANGED <<pc, beta, cnt, err, ret, args, window, stats, wham>>

TrialAt(a, b) ==
    \E d \in Draws(delta_energy_nb(lattice, a, b, J, h)) : metropolis_trial(a, b, d)

NextMC ==
    /\ pc = "metropolis"
    /\ \E a \in 0 .. Shape0(lattice) - 1 : \E b \in 0 .. Shape0(lattice) - 1 :
           TrialAt(a, b)

SpecMC == InitMC /\ [][NextMC]_vars

\* ------------------------------------------------ umbrella-sampling window
\* Bounds of the arguments run_window_us is called with.
USMaxL == 1
MaxEq == 1
MaxSteps == 2
MaxBins == 3

\* A mutant of delta_E_and_dM: dM = 2 * s, the sign of the change lost.
delta_E_and_dM_sign(lat, a, b, Jc, kb, m0, m) ==
    LET n == Shape0(lat)
        s == lat[a][b]
        nb == lat[(a + 1) % n][b] + lat[(a - 1) % n][b]
              + lat[a][(b + 1) % n] + lat[a][(b - 1) % n]
        dE_int == 2 * s * Jc * nb
        dM == 2 * s
        dV == (kb * ((m + dM - m0) * (m + dM - m0) - (m - m0) * (m - m0))) \div 2
    IN <<dE_int + dV, dM>>

\* delta_E_and_dM(lattice, i, j, J, k_bias, M0, M): the pair (dE, dM).  The
\* difference of the two squares is a multiple of 4, so the half is exact.
delta_E_and_dM(lat, a, b, Jc, kb, m0, m) ==
    LET n == Shape0(lat)
        s == lat[a][b]
        nb == lat[(a + 1) % n][b] + lat[(a - 1) % n][b]
              + lat[a][(b + 1) % n] + lat[a][(b - 1) % n]
        dE_int == 2 * s * Jc * nb
        dM == -2 * s
        dV == (kb * ((m + dM - m0) * (m + dM - m0) - (m - m0) * (m - m0))) \div 2
    IN <<dE_int + dV, dM>>

\* np.linspace(lo, hi, num): the points as fractions <<numerator, denominator>>.
linspace(lo, hi, num) ==
    [x \in 0 .. num - 1 |->
        IF num = 1 THEN <<lo, 1>> ELSE <<lo * (num - 1) + (hi - lo) * x, num - 1>>]

\* What run_window_us returns once it stands at "us_done": (hist, Mgrid).
window_return(at, hs) ==
    IF at = "us_done" THEN <<hs, linspace(-(L * L), L * L, bins)>> ELSE <<>>

\* Mgrid = np.linspace(-L * L, L * L, bins): its first and its last point.
\* With one bin the grid is the single point -L*L.
Mgrid_first(n) == -(n * n)
Mgrid_last(n, nb) == IF nb >= 2 THEN n * n ELSE -(n * n)

RECURSIVE GCD(_, _)
GCD(x, y) == IF y = 0 THEN x ELSE GCD(y, x % y)

RECURSIVE IsPow2(_)
IsPow2(x) == x = 1 \/ (x > 1 /\ x % 2 = 0 /\ IsPow2(x \div 2))

\* int(p / q), q > 0: truncation toward zero.
Trunc(p, q) == IF p >= 0 THEN p \div q ELSE -((-p) \div q)

\* A mutant of hist_index: the ratio is scaled by bins, not by bins - 1.
hist_index_bins(m, n, nb) ==
    {Trunc((m - Mgrid_first(n)) * nb, Mgrid_last(n, nb) - Mgrid_first(n))}

\* int((M - Mgrid[0]) / (Mgrid[-1] - Mgrid[0]) * (bins - 1)), bins >= 2: the
\* indices the double arithmetic can give.  The quotient is rounded before it
\* is scaled: when the exact product is a whole number k and the quotient is
\* not a dyadic rational, the computed product may lie just under k and
\* truncate to the index next to k.
hist_index(m, n, nb) ==
    LET a == m - Mgrid_first(n)
        q == Mgrid_last(n, nb) - Mgrid_first(n)
        p == a * (nb - 1)
        k == Trunc(p, q)
        exact == p % q # 0 \/ IsPow2(q \div GCD(Abs(a), q))
    IN IF exact THEN {k}
       ELSE IF p > 0 THEN {k - 1, k} ELSE {k, k + 1}

\* 1.0 / T, T = t/ln 2 with t = 1 or t = -1.
reciprocal(t) == BetaFinite(t)

InitUS ==
    /\ pc = "us_entry"
    /\ L \in 0 .. USMaxL
    /\ T \in {-1, 0, 1}
    /\ J = 1
    /\ h = 0
    /\ k_bias \in {0, 2}
    /\ M0 \in {-(L * L), 0, L * L}
    /\ n_eq \in 0 .. MaxEq
    /\ n_steps \in 0 .. MaxSteps
    /\ bins \in 0 .. MaxBins
    /\ lattice = <<>>
    /\ beta = BetaFinite(0)
    /\ i = 0 /\ j = 0 /\ dE = 0 /\ u = -1 /\ acc = FALSE
    /\ M = 0 /\ hist = <<>> /\ idx = -1 /\ cnt = 0 /\ err = ""
    /\ NoStats /\ col_idx = 0 /\ ret = <<>> /\ NoWham

\* Lines 425-429: beta, the fresh lattice, M, the empty histogram and the
\* grid, up to the head of the first loop that has an iteration to run.
\* 1.0 / T with T = 0 raises for a Python float and is inf for a numpy one.
run_window_us_enter ==
    /\ pc = "us_entry"
    /\ \/ /\ T = 0
          /\ pc' = "us_fault"
          /\ err' = "ZeroDivisionError"
          /\ UNCHANGED <<lattice, beta, cnt, ret, trial, args, window, stats, wham>>
       \/ /\ beta' = IF T = 0 THEN BetaInf ELSE reciprocal(T)
          /\ lattice' \in init_lattice_nb(L)
          /\ M' = total_sum(lattice')
          /\ hist' = [x \in 0 .. bins - 1 |-> 0]
          /\ cnt' = 0
          /\ pc' = IF n_eq > 0 THEN "us_eq"
                   ELSE IF n_steps > 0 THEN "us_meas" ELSE "us_done"
          /\ ret' = window_return(pc', hist')
          /\ UNCHANGED <<err, trial, args, idx, stats, wham>>

\* np.random.randint(0, L, 2) with L = 0 raises ValueError (low >= high).
run_window_us_randint ==
    /\ pc \in {"us_eq", "us_meas"}
    /\ L <= 0
    /\ pc' = "us_fault"
    /\ err' = "ValueError"
    /\ UNCHANGED <<lattice, beta, cnt, ret, trial, args, window, stats, wham>>

\* A mutant of run_window_us_eq: an equilibration trial is counted in the
\* histogram too.
run_window_us_eq_counted(a, b, d) ==
    LET r == delta_E_and_dM(lattice, a, b, J, k_bias, M0, M)
        ok == accept(beta, r[1], d)
    IN /\ pc = "us_eq"
       /\ acc' = ok
       /\ UNCHANGED <<i, j, dE, u>>
       /\ lattice' = IF ok THEN flip(lattice, a, b) ELSE lattice
       /\ M' = IF ok THEN M + r[2] ELSE M
       /\ hist' = [hist EXCEPT ![0] = @ + 1]
       /\ cnt' = IF cnt + 1 < n_eq THEN cnt + 1 ELSE 0
       /\ pc' = IF cnt + 1 < n_eq THEN "us_eq"
                ELSE IF n_steps > 0 THEN "us_meas" ELSE "us_done"
       /\ ret' = window_return(pc', hist')
       /\ UNCHANGED <<beta, err, args, idx, stats, wham>>

\* One iteration of the equilibration loop, lines 431-438.
run_window_us_eq(a, b, d) ==
    LET r == delta_E_and_dM(lattice, a, b, J, k_bias, M0, M)
        ok == accept(beta, r[1], d)
    IN /\ pc = "us_eq"
       /\ acc' = ok
       /\ UNCHANGED <<i, j, dE, u>>
       /\ lattice' = IF ok THEN flip(lattice, a, b) ELSE lattice
       /\ M' = IF ok THEN M + r[2] ELSE M
       /\ cnt' = IF cnt + 1 < n_eq THEN cnt + 1 ELSE 0
       /\ pc' = IF cnt + 1 < n_eq THEN "us_eq"
                ELSE IF n_steps > 0 THEN "us_meas" ELSE "us_done"
       /\ ret' = window_return(pc', hist)
       /\ UNCHANGED <<beta, err, args, hist, idx, stats, wham>>

\* One iteration of the measurement loop, lines 440-450: the trial, then the
\* histogram update at the index x of the new M.  Mgrid[0] of an empty grid
\* raises IndexError; with one bin the divisor Mgrid[-1] - Mgrid[0] is 0.0,
\* the product is nan and int(nan) raises ValueError.  hist[x] with
\* -bins <= x < 0 counts from the end, and any other x outside the histogram
\* raises IndexError.
run_window_us_meas(a, b, d) ==
    LET r == delta_E_and_dM(lattice, a, b, J, k_bias, M0, M)
        ok == accept(beta, r[1], d)
        m == IF ok THEN M + r[2] ELSE M
    IN /\ pc = "us_meas"
       /\ acc' = ok
       /\ UNCHANGED <<i, j, dE, u>>
       /\ lattice' = IF ok THEN flip(lattice, a, b) ELSE lattice
       /\ M' = m
       /\ IF bins <= 1
          THEN /\ pc' = "us_fault"
               /\ err' = IF bins = 0 THEN "IndexError" ELSE "ValueError"
               /\ UNCHANGED <<cnt, hist, idx>>
          ELSE \E x \in hist_index(m, L, bins) :
                 /\ idx' = x
                 /\ IF x \in 0 .. bins - 1
                    THEN /\ hist' = [hist EXCEPT ![x] = @ + 1]
                         /\ cnt' = cnt + 1
                         /\ pc' = IF cnt + 1 < n_steps THEN "us_meas" ELSE "us_done"
                         /\ err' = err
                    ELSE IF x \in -bins .. -1
                    THEN /\ hist' = [hist EXCEPT ![bins + x] = @ + 1]
                         /\ cnt' = cnt + 1
                         /\ pc' = IF cnt + 1 < n_steps THEN "us_meas" ELSE "us_done"
                         /\ err' = err
                    ELSE /\ pc' = "us_fault"
                         /\ err' = "IndexError"
                         /\ UNCHANGED <<cnt, hist>>
       /\ ret' = window_return(pc', hist')
       /\ UNCHANGED <<beta, args, stats, wham>>

\* The draws a biased trial at (a, b) can see.
USDraws(a, b) == Draws(delta_E_and_dM(lattice, a, b, J, k_bias, M0, M)[1])

NextUS ==
    \/ run_window_us_enter
    \/ run_window_us_randint
    \/ /\ pc = "us_eq"
       /\ \E a \in 0 .. L - 1 : \E b \in 0 .. L - 1 : \E d \in USDraws(a, b) :
              run_window_us_eq(a, b, d)
    \/ /\ pc = "us_meas"
       /\ \E a \in 0 .. L - 1 : \E b \in 0 .. L - 1 : \E d \in USDraws(a, b) :
              run_window_us_meas(a, b, d)

SpecUS == InitUS /\ [][NextUS]_vars

\* ------------------------------------------------ correlation measurements
\* Bound of the lattice side the two correlation measurements are called with
\* (the sweep counts share MaxEq and MaxSteps).
CorrMaxL == 1

\* max_r = L // 2
max_r(n) == n \div 2

\* Lines 193-200 for one separation: the sum over all sites of
\* s(i,j) * s((i+r) % L, j).
RECURSIVE pair_sum(_, _, _, _)
pair_sum(lat, n, r, k) ==
    IF k = 0 THEN 0
    ELSE lat[(k - 1) \div n][(k - 1) % n] * lat[(((k - 1) \div n) + r) % n][(k - 1) % n]
         + pair_sum(lat, n, r, k - 1)

\* A mutant of shifted_sum: the shifted row is not wrapped but stopped at
\* the last row.
RECURSIVE shifted_sum_clamped(_, _, _, _)
shifted_sum_clamped(lat, n, r, k) ==
    IF k = 0 THEN 0
    ELSE LET row == ((k - 1) \div n) + r
         IN lat[IF row > n - 1 THEN n - 1 ELSE row][(k - 1) % n]
            + shifted_sum_clamped(lat, n, r, k - 1)

\* Lines 193-200 for one separation: the sum over all sites of s((i+r) % L, j).
RECURSIVE shifted_sum(_, _, _, _)
shifted_sum(lat, n, r, k) ==
    IF k = 0 THEN 0
    ELSE lat[(((k - 1) \div n) + r) % n][(k - 1) % n] + shifted_sum(lat, n, r, k - 1)

\* Lines 247-250: the sum down column c of s(i,c) * s((i+r) % L, c).
RECURSIVE column_sum(_, _, _, _, _)
column_sum(lat, n, c, r, k) ==
    IF k = 0 THEN 0
    ELSE lat[k - 1][c] * lat[((k - 1) + r) % n][c] + column_sum(lat, n, c, r, k - 1)

\* A mutant of spin_stats_return: the product of the means is not subtracted.
spin_stats_unconnected(sm, sp, ss, n, steps) ==
    LET q == n * n * steps
    IN <<<<sm, q>>, [r \in 0 .. max_r(n) |-> <<sp[r] * q, q * q>>]>>

\* Lines 204-211: (m_avg, corr) from the accumulators, as fractions:
\* m_avg = sum_m / n_steps and corr[r] = avg_ss - m_avg * avg_sj, with the
\* accumulators in units of 1/N.
spin_stats_return(sm, sp, ss, n, steps) ==
    LET q == n * n * steps
    IN <<<<sm, q>>, [r \in 0 .. max_r(n) |-> <<sp[r] * q - sm * ss[r], q * q>>]>>

\* Lines 253-256: (m_avg, corr) of the column variant:
\* corr = corr_sum / n_steps - m_avg**2, corr_sum in units of 1/L.
column_return(sm, cs, n, steps) ==
    LET q == n * n * steps
    IN <<<<sm, q>>, [r \in 0 .. max_r(n) |-> <<cs[r] * n * q - sm * sm, q * q>>]>>

InitCorr ==
    /\ pc \in {"ss_entry", "cc_entry"}
    /\ L \in 0 .. CorrMaxL
    /\ T \in {-1, 0, 1}
    /\ J = 1
    /\ h \in IF pc = "ss_entry" THEN {0, 1} ELSE {0}
    /\ n_eq \in 0 .. MaxEq
    /\ n_steps \in 0 .. MaxSteps
    /\ col_idx \in IF pc = "cc_entry" /\ L > 0 THEN 0 .. L - 1 ELSE {0}
    /\ k_bias = 0 /\ M0 = 0 /\ bins = 0
    /\ lattice = <<>>
    /\ beta = BetaFinite(0)
    /\ i = 0 /\ j = 0 /\ dE = 0 /\ u = -1 /\ acc = FALSE
    /\ M = 0 /\ hist = <<>> /\ idx = -1 /\ cnt = 0 /\ err = ""
    /\ NoStats /\ ret = <<>> /\ NoWham

\* The prefix "ss" or "cc" of the control state: which measurement runs.
fn == IF pc \in {"ss_entry", "ss_eq", "ss_meas", "ss_done", "ss_fault"} THEN "ss" ELSE "cc"

at(which, where) ==
    IF which = "ss"
    THEN (CASE where = "eq" -> "ss_eq" [] where = "meas" -> "ss_meas"
            [] where = "done" -> "ss_done" [] OTHER -> "ss_fault")
    ELSE (CASE where = "eq" -> "cc_eq" [] where = "meas" -> "cc_meas"
            [] where = "done" -> "cc_done" [] OTHER -> "cc_fault")

\* Lines 170-181 and 230-239: the fresh lattice, beta = 1.0 / T, N, max_r and
\* the zeroed accumulators, up to the first sweep.  The lattice is made first;
\* 1.0 / T with T = 0 raises ZeroDivisionError.  With L = 0 every sweep is
\* empty and the first division by N = 0 (or, with no measurement step, the
\* division by n_steps = 0) raises; so does the division by n_steps = 0 at
\* the end when there is no step at all.
measure_enter ==
    /\ pc \in {"ss_entry", "cc_entry"}
    /\ lattice' \in init_lattice_nb(L)
    /\ IF T = 0 \/ L = 0 \/ (n_eq <= 0 /\ n_steps <= 0)
       THEN /\ pc' = at(fn, "fault")
            /\ err' = "ZeroDivisionError"
            /\ UNCHANGED <<beta, stats>>
       ELSE /\ beta' = reciprocal(T)
            /\ sum_m' = 0
            /\ sum_pair' = IF fn = "ss" THEN [r \in 0 .. max_r(L) |-> 0] ELSE <<>>
            /\ sum_shift' = IF fn = "ss" THEN [r \in 0 .. max_r(L) |-> 0] ELSE <<>>
            /\ corr_sum' = IF fn = "cc" THEN [r \in 0 .. max_r(L) |-> 0] ELSE <<>>
            /\ UNCHANGED <<total_spin, shift_sum>>
            /\ pc' = at(fn, IF n_eq > 0 THEN "eq" ELSE "meas")
            /\ err' = err
    /\ UNCHANGED <<cnt, ret, trial, args, window, wham>>

\* One iteration of an equilibration loop (lines 175-176, 235-236): a sweep.
\* After the last one, with no measurement step to run, the division by
\* n_steps = 0 raises.
measure_equilibrate ==
    /\ pc \in {"ss_eq", "cc_eq"}
    /\ lattice' \in metropolis_step_nb(lattice, beta, J, h)
    /\ cnt' = IF cnt + 1 < n_eq THEN cnt + 1 ELSE 0
    /\ pc' = IF cnt + 1 < n_eq THEN pc
             ELSE IF n_steps > 0 THEN at(fn, "meas") ELSE at(fn, "fault")
    /\ err' = IF cnt + 1 < n_eq \/ n_steps > 0 THEN err ELSE "ZeroDivisionError"
    /\ UNCHANGED <<beta, ret, trial, args, window, stats, wham>>

\* One iteration of the measurement loop of measure_spin_stats_explicit_nb
\* (lines 183-202): a sweep, then the total spin and, for every separation,
\* the pair and the shifted sums of the new lattice; after the last
\* iteration, lines 204-211 and the return.
measure_spin_stats_explicit_nb ==
    /\ pc = "ss_meas"
    /\ lattice' \in metropolis_step_nb(lattice, beta, J, h)
    /\ total_spin' = total_sum(lattice')
    /\ sum_m' = sum_m + total_spin'
    /\ shift_sum' = [r \in 0 .. max_r(L) |-> shifted_sum(lattice', L, r, L * L)]
    /\ sum_pair' = [r \in 0 .. max_r(L) |-> sum_pair[r] + pair_sum(lattice', L, r, L * L)]
    /\ sum_shift' = [r \in 0 .. max_r(L) |-> sum_shift[r] + shift_sum'[r]]
    /\ cnt' = cnt + 1
    /\ pc' = IF cnt + 1 < n_steps THEN "ss_meas" ELSE "ss_done"
    /\ ret' = IF cnt + 1 < n_steps THEN ret
              ELSE spin_stats_return(sum_m', sum_pair', sum_shift', L, n_steps)
    /\ UNCHANGED <<beta, err, trial, args, window, corr_sum, wham>>

\* One iteration of the measurement loop of measure_column_correlation_nb
\* (lines 241-251), and after the last one lines 253-256 and the return.
measure_column_correlation_nb ==
    /\ pc = "cc_meas"
    /\ lattice' \in metropolis_step_nb(lattice, beta, J, h)
    /\ total_spin' = total_sum(lattice')
    /\ sum_m' = sum_m + total_spin'
    /\ corr_sum' = [r \in 0 .. max_r(L) |->
                       corr_sum[r] + column_sum(lattice', L, col_idx, r, L)]
    /\ cnt' = cnt + 1
    /\ pc' = IF cnt + 1 < n_steps THEN "cc_meas" ELSE "cc_done"
    /\ ret' = IF cnt + 1 < n_steps THEN ret
              ELSE column_return(sum_m', corr_sum', L, n_steps)
    /\ UNCHANGED <<beta, err, trial, args, window, sum_pair, sum_shift, shift_sum, wham>>

NextCorr ==
    \/ measure_enter
    \/ measure_equilibrate
    \/ measure_spin_stats_explicit_nb
    \/ measure_column_correlation_nb

SpecCorr == InitCorr /\ [][NextCorr]_vars

\* -------------------------------------------------------------------- WHAM
\* Bounds of the histograms wham_us is called with: the number of windows
\* and the largest count of a bin.
MaxWindows == 2
MaxCount == 1

\* The cap of the fixed-point iteration.
MaxIter == 5000

\* A double of wham_us: a fraction <<p, q>> with q > 0, or nan, written
\* <<0, 0>>.  wham_us is called with k_bias = 0: every bias potential V is 0,
\* every offset f is 0 or nan, and every number the call computes is one of
\* these.
NaN == <<0, 0>>
IsNaN(x) == x[2] = 0
Frac(p, q) == LET g == GCD(Abs(p), q) IN <<p \div g, q \div g>>
Zero == <<0, 1>>
One == <<1, 1>>

FAdd(x, y) == IF IsNaN(x) \/ IsNaN(y) THEN NaN ELSE Frac(x[1] * y[2] + y[1] * x[2], x[2] * y[2])
FSub(x, y) == IF IsNaN(x) \/ IsNaN(y) THEN NaN ELSE Frac(x[1] * y[2] - y[1] * x[2], x[2] * y[2])
FMul(x, y) == IF IsNaN(x) \/ IsNaN(y) THEN NaN ELSE Frac(x[1] * y[1], x[2] * y[2])

\* x / y of numpy doubles: 0/0 is nan (with a warning, no exception).  A
\* non-zero x over 0 is inf, which no call of the model computes: P >= 0
\* and its integral is 0 only when P is 0 everywhere.
FDiv(x, y) ==
    IF IsNaN(x) \/ IsNaN(y) THEN NaN
    ELSE IF y[1] = 0 THEN NaN
    ELSE IF y[1] > 0 THEN Frac(x[1] * y[2], x[2] * y[1])
    ELSE Frac(-(x[1] * y[2]), -(x[2] * y[1]))

FAbs(x) == <<Abs(x[1]), x[2]>>

\* x > y of doubles: False when either is nan.
FGreater(x, y) == ~IsNaN(x) /\ ~IsNaN(y) /\ x[1] * y[2] > y[1] * x[2]

\* np.exp(x) and -np.log(x + eps) at the arguments the calls reach: exp(0) = 1,
\* -log(1 + 1e-30) = -log(1) = 0, and nan for nan.
FExp0(x) == IF IsNaN(x) THEN NaN ELSE One
FNegLog1(x) == IF IsNaN(x) THEN NaN ELSE Zero

\* trapezoid(y, x): the sum of (x[k+1] - x[k]) * (y[k] + y[k+1]) / 2.
RECURSIVE trapezoid_upto(_, _, _)
trapezoid_upto(y, x, k) ==
    IF k = 0 THEN Zero
    ELSE FAdd(trapezoid_upto(y, x, k - 1),
              FMul(FSub(x[k], x[k - 1]), FMul(FAdd(y[k], y[k - 1]), <<1, 2>>)))

trapezoid(y, x) == trapezoid_upto(y, x, Cardinality(DOMAIN y) - 1)

RECURSIVE SumTo(_, _)
SumTo(g, k) == IF k < 0 THEN 0 ELSE g[k] + SumTo(g, k - 1)

RECURSIVE FSumSeq(_, _)
FSumSeq(sq, k) == IF k = 0 THEN Zero ELSE FAdd(sq[k], FSumSeq(sq, k - 1))

\* n_k = H.sum(axis=1): the samples of window w.
n_k(hl, w) == SumTo(hl[w], Cardinality(DOMAIN hl[w]) - 1)

\* totalH = H.sum(axis=0)
RECURSIVE totalH(_, _, _)
totalH(hl, x, w) == IF w = 0 THEN 0 ELSE hl[w][x] + totalH(hl, x, w - 1)

\* Line 479: denom = sum over the windows of n_k * exp(beta * (f_k - V)),
\* with V = 0: the same at every grid point.
denom(hl, fs) ==
    FSumSeq([w \in 1 .. Len(hl) |-> FMul(<<n_k(hl, w), 1>>, FExp0(fs[w]))], Len(hl))

\* Lines 482-485: P = totalH / denom where denom > eps and 0 elsewhere, then
\* P /= trapezoid(P, Mgrid).
wham_P(hl, fs, grid) ==
    LET dn == denom(hl, fs)
        raw == [x \in DOMAIN grid |->
                  IF FGreater(dn, Zero) THEN FDiv(<<totalH(hl, x, Len(hl)), 1>>, dn)
                  ELSE Zero]
        area == trapezoid(raw, grid)
    IN [x \in DOMAIN grid |-> FDiv(raw[x], area)]

\* Lines 487-488: integ = trapezoid(P * exp(-beta * V), Mgrid) with V = 0, and
\* f_new = -log(integ + eps) / beta.
wham_f_new(hl, pr, grid) ==
    [w \in 1 .. Len(hl) |-> FNegLog1(FMul(trapezoid(pr, grid), FExp0(Zero)))]

\* Line 490: np.max(np.abs(f_new - f)) < 1e-6; a nan among the changes makes
\* the maximum nan, and nan compares False.
wham_converged(fnew, fs) ==
    \A w \in DOMAIN fs : FGreater(<<1, 1000000>>, FAbs(FSub(fnew[w], fs[w])))

\* Line 495: F = -np.log(P + eps) / beta, entry by entry: nan where P is nan,
\* and the finite -log of P + eps elsewhere.
wham_F(pr) == [x \in DOMAIN pr |-> [nan |-> IsNaN(pr[x]), neg_log_of |-> pr[x]]]

\* The histograms of one window: counts of 0 .. MaxCount on nb bins.
Hists(nb) == [(0 .. nb - 1) -> 0 .. MaxCount]

InitWham ==
    /\ pc = "wham_entry"
    /\ L \in 1 .. USMaxL
    /\ bins \in 2 .. MaxBins
    /\ \E nw \in 1 .. MaxWindows :
          /\ hist_list \in [1 .. nw -> Hists(bins)]
          /\ M0_list = [w \in 1 .. nw |-> linspace(-(L * L), L * L, nw)[w - 1]]
    /\ k_bias = 0
    /\ beta = BetaFinite(1)
    /\ T = 1 /\ J = 0 /\ h = 0 /\ M0 = 0 /\ n_eq = 0 /\ n_steps = 0 /\ col_idx = 0
    /\ lattice = <<>>
    /\ i = 0 /\ j = 0 /\ dE = 0 /\ u = -1 /\ acc = FALSE
    /\ M = 0 /\ hist = <<>> /\ idx = -1 /\ cnt = 0 /\ err = ""
    /\ NoStats /\ ret = <<>>
    /\ f = <<>> /\ P = <<>>

\* Lines 469-474: H, n_k, V, the offsets f = 0 and eps.
wham_us_enter ==
    /\ pc = "wham_entry"
    /\ f' = [w \in 1 .. Len(hist_list) |-> Zero]
    /\ pc' = "wham_loop"
    /\ UNCHANGED <<lattice, beta, cnt, err, ret, trial, args, window, stats,
                   hist_list, M0_list, P>>

\* One iteration of the loop of lines 477-493; on convergence, or when the
\* iteration was the last of the 5000, line 495 and the return of (P, F).
\* cnt counts the iterations that did not converge.
wham_us_iterate ==
    LET grid == linspace(-(L * L), L * L, bins)
        pr == wham_P(hist_list, f, grid)
        fnew == wham_f_new(hist_list, pr, grid)
        brk == wham_converged(fnew, f)
    IN /\ pc = "wham_loop"
       /\ cnt < MaxIter
       /\ P' = pr
       /\ f' = fnew
       /\ cnt' = IF brk THEN cnt ELSE cnt + 1
       /\ pc' = IF brk \/ cnt + 1 = MaxIter THEN "wham_done" ELSE "wham_loop"
       /\ ret' = IF brk \/ cnt + 1 = MaxIter THEN <<pr, wham_F(pr)>> ELSE ret
       /\ UNCHANGED <<lattice, beta, err, trial, args, window, stats, hist_list, M0_list>>

NextWham == wham_us_enter \/ wham_us_iterate

SpecWham == InitWham /\ [][NextWham]_vars

\* ------------------------------------------ windows of a valid configuration
\* Largest lattice side of the windows run with a valid configuration.
WinMaxL == 2

\* run_window_us called as the driver calls it (line 534): L >= 1, T > 0,
\* at least one measurement step and at least two bins.
InitWindow ==
    /\ pc = "us_entry"
    /\ L \in 1 .. WinMaxL
    /\ T = 1
    /\ J = 1
    /\ h = 0
    /\ k_bias \in {0, 2}
    /\ M0 = 0
    /\ n_eq \in 0 .. MaxEq
    /\ n_steps \in 1 .. MaxSteps
    /\ bins \in 2 .. MaxBins
    /\ lattice = <<>>
    /\ beta = BetaFinite(0)
    /\ i = 0 /\ j = 0 /\ dE = 0 /\ u = -1 /\ acc = FALSE
    /\ M = 0 /\ hist = <<>> /\ idx = -1 /\ cnt = 0 /\ err = ""
    /\ NoStats /\ col_idx = 0 /\ ret = <<>> /\ NoWham

NextWindow ==
    \/ run_window_us_enter
    \/ /\ pc = "us_eq"
       /\ \E a \in 0 .. L - 1 : \E b \in 0 .. L - 1 : \E d \in USDraws(a, b) :
              run_window_us_eq(a, b, d)
    \/ /\ pc = "us_meas"
       /\ \E a \in 0 .. L - 1 : \E b \in 0 .. L - 1 : \E d \in USDraws(a, b) :
              run_window_us_meas(a, b, d)

SpecWindow == InitWindow /\ [][NextWindow]_vars

\* ------------------------------- spin statistics of a valid configuration
\* Largest lattice side of the spin-statistics measurements run with a valid
\* configuration.
StatsMaxL == 2

\* measure_spin_stats_explicit_nb called with L >= 1, T > 0 and at least one
\* measurement step.
InitStats ==
    /\ pc = "ss_entry"
    /\ L \in 1 .. StatsMaxL
    /\ T = 1
    /\ J = 1
    /\ h \in {0, 1}
    /\ n_eq \in 0 .. MaxEq
    /\ n_steps \in 1 .. MaxSteps
    /\ col_idx = 0
    /\ k_bias = 0 /\ M0 = 0 /\ bins = 0
    /\ lattice = <<>>
    /\ beta = BetaFinite(0)
    /\ i = 0 /\ j = 0 /\ dE = 0 /\ u = -1 /\ acc = FALSE
    /\ M = 0 /\ hist = <<>> /\ idx = -1 /\ cnt = 0 /\ err = ""
    /\ NoStats /\ ret = <<>> /\ NoWham

NextStats ==
    \/ measure_enter
    \/ measure_equilibrate
    \/ measure_spin_stats_explicit_nb

SpecStats == InitStats /\ [][NextStats]_vars

\* ------------------------------------------- calls at an arbitrary site
\* How far outside [-L, L) the indices of a direct call are taken.
MaxOut == 1

\* What a read of dtype np.int8 (line 18) outside the buffer can give: any
\* value of -128 .. 127.  The model takes the two extremes, the two spin
\* values and 0.
Int8 == {-128, -1, 0, 1, 127}

\* lattice[i, j] of the interpreter (numpy), the read of line 397: an index
\* in [-n, n) counts from the end when negative, any other raises
\* IndexError.  The set of outcomes: the value read, or the fault.
getitem(lat, a, b) ==
    LET n == Shape0(lat)
    IN IF a \in -n .. n - 1 /\ b \in -n .. n - 1
       THEN {[fault |-> "", val |-> lat[a % n][b % n]]}
       ELSE {[fault |-> "IndexError", val |-> 0]}

\* lattice[i, j] of compiled code (@njit, no bounds check), the read of line
\* 42: a negative index has n added once, and the cell at the flat offset
\* i * n + j is read whether or not the indices are in range.  Inside the
\* buffer that is a cell of the lattice; outside it the read is of memory the
\* array does not own: any int8 value, or a crash.
getitem_nb(lat, a, b) ==
    LET n == Shape0(lat)
        a1 == IF a < 0 THEN a + n ELSE a
        b1 == IF b < 0 THEN b + n ELSE b
        flat == a1 * n + b1
    IN IF a1 \in 0 .. n - 1 /\ b1 \in 0 .. n - 1
       THEN {[fault |-> "", val |-> lat[a1][b1]]}
       ELSE IF flat \in 0 .. n * n - 1
       THEN {[fault |-> "", val |-> lat[flat \div n][flat % n]]}
       ELSE {[fault |-> "", val |-> v] : v \in Int8}
                \cup {[fault |-> "SegmentationFault", val |-> 0]}

\* The four neighbour reads of lines 399-400 at any (i, j): the row and the
\* column of a neighbour are reduced modulo L where they are offset, and used
\* as given where they are not.
neighbour_reads(lat, a, b) ==
    LET n == Shape0(lat)
    IN getitem(lat, (a + 1) % n, b) \X getitem(lat, (a - 1) % n, b)
           \X getitem(lat, a, (b + 1) % n) \X getitem(lat, a, (b - 1) % n)

\* The four neighbour reads of lines 44-49, in compiled code.
neighbour_reads_nb(lat, a, b) ==
    LET n == Shape0(lat)
    IN getitem_nb(lat, (a + 1) % n, b) \X getitem_nb(lat, (a - 1) % n, b)
           \X getitem_nb(lat, a, (b + 1) % n) \X getitem_nb(lat, a, (b - 1) % n)

\* The faults among the reads of a call, in the order of the reads.
first_fault(s, q) ==
    IF s.fault # "" THEN s.fault
    ELSE IF q[1].fault # "" THEN q[1].fault
    ELSE IF q[2].fault # "" THEN q[2].fault
    ELSE IF q[3].fault # "" THEN q[3].fault
    ELSE q[4].fault

\* delta_energy_nb(lattice, i, j, J, h) at any (i, j): the outcomes
\* [fault, val] of lines 41-51.
delta_energy_nb_at(lat, a, b, Jc, hc) ==
    {[fault |-> first_fault(s, q),
      val |-> 2 * s.val * (Jc * (q[1].val + q[2].val + q[3].val + q[4].val) + hc)] :
        s \in getitem_nb(lat, a, b), q \in neighbour_reads_nb(lat, a, b)}

\* delta_E_and_dM(lattice, i, j, J, k_bias, M0, M) at any (i, j): the
\* outcomes [fault, val] of lines 396-405, val the pair (dE, dM).
delta_E_and_dM_at(lat, a, b, Jc, kb, m0, m) ==
    {LET nb == q[1].val + q[2].val + q[3].val + q[4].val
         dM == -2 * s.val
         dV == (kb * ((m + dM - m0) * (m + dM - m0) - (m - m0) * (m - m0))) \div 2
     IN [fault |-> first_fault(s, q), val |-> <<2 * s.val * Jc * nb + dV, dM>>] :
        s \in getitem(lat, a, b), q \in neighbour_reads(lat, a, b)}

\* A direct call of delta_energy_nb or of delta_E_and_dM on a fresh lattice,
\* at a site given by any two integers near [-L, L).
InitSite ==
    /\ pc \in {"de_entry", "dedm_entry"}
    /\ \E n \in 1 .. MaxL :
          /\ lattice \in init_lattice_nb(n)
          /\ i \in -(n + MaxOut) .. n - 1 + MaxOut
          /\ j \in -(n + MaxOut) .. n - 1 + MaxOut
    /\ L = Shape0(lattice)
    /\ J = 1
    /\ h \in IF pc = "de_entry" THEN {0, 1} ELSE {0}
    /\ k_bias \in IF pc = "dedm_entry" THEN {0, 2} ELSE {0}
    /\ M0 = 0
    /\ M = IF pc = "dedm_entry" THEN total_sum(lattice) ELSE 0
    /\ beta = BetaFinite(0)
    /\ dE = 0 /\ u = -1 /\ acc = FALSE
    /\ T = 0 /\ n_eq = 0 /\ n_steps = 0 /\ bins = 0
    /\ hist = <<>> /\ idx = -1 /\ cnt = 0 /\ err = ""
    /\ NoStats /\ col_idx = 0 /\ ret = <<>> /\ NoWham

\* The call delta_energy_nb(lattice, i, j, J, h).
delta_energy_nb_call ==
    /\ pc = "de_entry"
    /\ \E o \in delta_energy_nb_at(lattice, i, j, J, h) :
          /\ err' = o.fault
          /\ pc' = IF o.fault = "" THEN "de_done" ELSE "de_fault"
          /\ dE' = IF o.fault = "" THEN o.val ELSE dE
          /\ ret' = IF o.fault = "" THEN <<o.val>> ELSE ret
    /\ UNCHANGED <<lattice, beta, cnt, i, j, u, acc, args, window, stats, wham>>

\* The call delta_E_and_dM(lattice, i, j, J, k_bias, M0, M).
delta_E_and_dM_call ==
    /\ pc = "dedm_entry"
    /\ \E o \in delta_E_and_dM_at(lattice, i, j, J, k_bias, M0, M) :
          /\ err' = o.fault
          /\ pc' = IF o.fault = "" THEN "dedm_done" ELSE "dedm_fault"
          /\ dE' = IF o.fault = "" THEN o.val[1] ELSE dE
          /\ ret' = IF o.fault = "" THEN o.val ELSE ret
    /\ UNCHANGED <<lattice, beta, cnt, i, j, u, acc, args, window, stats, wham>>

NextSite == delta_energy_nb_call \/ delta_E_and_dM_call

SpecSite == InitSite /\ [][NextSite]_vars

\* ------------------------------------------------ the lattice simulations
\* Any of the functions that own a lattice is called.
Init == InitMC \/ InitUS \/ InitCorr

Next == NextMC \/ NextUS \/ NextCorr

Spec == Init /\ [][Next]_vars

\* The unbiased runs under fair site selection: every site of the lattice is
\* chosen again and again.
FairSpecMC ==
    /\ InitMC
    /\ [][NextMC]_vars
    /\ \A a \in 0 .. MaxL - 1 : \A b \in 0 .. MaxL - 1 :
           WF_vars(pc = "metropolis" /\ a < L /\ b < L /\ TrialAt(a, b))

\* ------------------------------------------------------------- properties
\* The lattice exists: the call is past init_lattice_nb.
Created == pc \in {"metropolis", "us_eq", "us_meas", "us_done",
                    "ss_eq", "ss_meas", "ss_done", "ss_fault",
                    "cc_eq", "cc_meas", "cc_done", "cc_fault"}
              \/ (pc = "us_fault" /\ err # "ZeroDivisionError")

InWindow == pc \in {"us_eq", "us_meas", "us_done", "us_fault"}

Sites(lat) == (0 .. Shape0(lat) - 1) \X (0 .. Shape0(lat) - 1)

\* The full toroidal nearest-neighbour Ising energy:
\* -J * sum of s(i,j) * (s(i+1,j) + s(i,j+1)) - h * sum of s(i,j).
RECURSIVE BondSum(_, _, _)
BondSum(lat, n, k) ==
    IF k = 0 THEN 0
    ELSE LET a == (k - 1) \div n
             b == (k - 1) % n
         IN lat[a][b] * (lat[(a + 1) % n][b] + lat[a][(b + 1) % n])
            + BondSum(lat, n, k - 1)

Energy(lat, Jc, hc) ==
    -Jc * BondSum(lat, Shape0(lat), Shape0(lat) * Shape0(lat)) - hc * total_sum(lat)

Uniform(lat) == \A p \in Sites(lat) : \A q \in Sites(lat) : lat[p[1]][p[2]] = lat[q[1]][q[2]]

\* C1: in run_window_us the tracked M equals the sum of all lattice cells
\* after every trial, equilibration or measurement; a trial that flips its
\* site changes M by exactly +2 or -2 and a trial that does not leaves M as
\* it was.
C1_TrackedMagnetization ==
    [][(pc' \in {"us_eq", "us_meas", "us_done"} \/ (pc' = "us_fault" /\ lattice' # lattice))
         => /\ M' = total_sum(lattice')
            /\ (pc \in {"us_eq", "us_meas"} /\ lattice' # lattice) => (M' - M \in {-2, 2})
            /\ (pc \in {"us_eq", "us_meas"} /\ lattice' = lattice) => M' = M]_vars

\* C1's case: a window ran to its end, its last trial flipped a site, and M
\* is the lattice sum.
C1_Witness ==
    /\ pc = "us_done" /\ acc /\ n_steps = MaxSteps /\ n_eq = MaxEq
    /\ L = USMaxL /\ M = total_sum(lattice)

\* C2: every cell of the lattice is -1 or +1 in every reachable state, after
\* init_lattice_nb and after any sequence of unbiased or biased trials, and
\* so the magnitude of the total spin never exceeds L*L.
C2_SpinsAreUnits ==
    Created =>
        /\ \A p \in Sites(lattice) : lattice[p[1]][p[2]] \in {-1, 1}
        /\ Abs(total_sum(lattice)) <= Shape0(lattice) * Shape0(lattice)

\* C2's case: a lattice of side >= 2 whose last trial flipped a site.
C2_Witness ==
    /\ Created /\ acc /\ Shape0(lattice) >= 2
    /\ \A p \in Sites(lattice) : lattice[p[1]][p[2]] \in {-1, 1}

\* C3: with bins >= 2 the histogram index computed from any reachable M lies
\* in 0 .. bins-1: no histogram update indexes outside the histogram.
C3_IndexInRange ==
    (InWindow /\ Created /\ L >= 1 /\ bins >= 2) =>
        /\ \A x \in hist_index(M, L, bins) : x \in 0 .. bins - 1
        /\ idx \in -1 .. bins - 1
        /\ err # "IndexError"

\* C3's case: a measurement at the top edge M = L*L, counted in the last bin.
C3_Witness ==
    /\ pc = "us_done" /\ bins = MaxBins /\ L = USMaxL
    /\ M = L * L /\ idx = bins - 1 /\ hist[bins - 1] >= 1

\* C4: for every lattice, site, J and h, delta_energy_nb returns
\* E(lattice with the site flipped) - E(lattice).
C4_DeltaIsEnergyDifference ==
    pc = "metropolis" =>
        \A p \in Sites(lattice) :
            delta_energy_nb(lattice, p[1], p[2], J, h)
                = Energy(flip(lattice, p[1], p[2]), J, h) - Energy(lattice, J, h)

\* C5: with beta = infinity and h = 0 a trial of metropolis_step_nb flips its
\* site if and only if dE <= 0, whatever the draw, and the lattice energy
\* never increases.
C5_ZeroTemperature ==
    [][(pc = "metropolis" /\ beta.inf /\ h = 0)
         => /\ acc' <=> (dE' <= 0)
            /\ lattice' = IF dE' <= 0 THEN flip(lattice, i', j') ELSE lattice
            /\ Energy(lattice', J, h) <= Energy(lattice, J, h)]_vars

\* C5's case: at beta = infinity a trial with dE > 0 drew 0.0, the draw every
\* finite beta accepts, and did not flip.
C5_Witness ==
    /\ pc = "metropolis" /\ beta.inf /\ h = 0
    /\ dE > 0 /\ u = 0 /\ ~acc /\ Shape0(lattice) = MaxL

\* C6 as claimed: with beta = infinity, h = 0 and a ferromagnetic coupling,
\* under fair site selection the lattice eventually becomes uniform.
C6_EventuallyUniform ==
    (pc = "metropolis" /\ beta.inf /\ h = 0 /\ J > 0) => <>Uniform(lattice)

\* C6 as amended: with beta = infinity, h = 0 and J > 0 a uniform lattice is
\* absorbing: no trial flips a site of it.
C6_UniformIsAbsorbing ==
    [][(pc = "metropolis" /\ beta.inf /\ h = 0 /\ J > 0 /\ Uniform(lattice))
         => (lattice' = lattice /\ ~acc' /\ dE' > 0)]_vars

\* C6's case: a trial on a uniform lattice of side >= 2 was rejected.
C6_Witness ==
    /\ pc = "metropolis" /\ beta.inf /\ h = 0 /\ J > 0
    /\ Shape0(lattice) >= 2 /\ Uniform(lattice) /\ ~acc /\ dE > 0 /\ u = 0

\* The correlation at separation 0 and the mean magnetization per site that
\* a finished correlation measurement returned, as fractions.
ReturnedC0 == ret[2][0]
ReturnedMean == ret[1]

\* C7 as claimed: the correlation at separation 0 returned by
\* measure_spin_stats_explicit_nb and by measure_column_correlation_nb is
\* exactly 1, the mean-square spin per site.
C7_UnitAtZero ==
    pc \in {"ss_done", "cc_done"} => ReturnedC0[1] = ReturnedC0[2]

\* C7 as amended: both functions return the connected correlation, and at
\* separation 0 it is 1 - m_avg^2 for the mean magnetization m_avg returned
\* with it.
C7_ConnectedAtZero ==
    pc \in {"ss_done", "cc_done"} =>
        ReturnedC0[1] * ReturnedMean[2] * ReturnedMean[2]
            = ReturnedC0[2] * (ReturnedMean[2] * ReturnedMean[2]
                                 - ReturnedMean[1] * ReturnedMean[1])

\* C7's case: a measurement of the longest run returned a non-zero mean
\* magnetization, and with it a correlation at separation 0 below 1.
C7_Witness ==
    /\ pc = "ss_done" /\ L = CorrMaxL /\ n_steps = MaxSteps
    /\ ReturnedMean[1] # 0 /\ ReturnedC0[1] < ReturnedC0[2]

\* A configuration the specification calls invalid.
InvalidConfig ==
    \/ L <= 0
    \/ T <= 0
    \/ n_steps <= 0
    \/ (pc \in {"us_entry", "us_eq", "us_meas", "us_done", "us_fault"} /\ bins <= 1)

\* The call ended at its entry with a validation failure: no lattice, no
\* division.
Rejected ==
    /\ pc \in {"us_fault", "ss_fault", "cc_fault"}
    /\ err = "ValidationError"
    /\ ~Created

\* C8: an entry point called with an invalid configuration (L <= 0,
\* n_steps <= 0, bins <= 1, T <= 0) rejects it at entry with a validation
\* failure, before a lattice is created or a division is performed; it never
\* proceeds with the value.
C8_InvalidRejectedAtEntry ==
    (pc # "metropolis" /\ InvalidConfig) =>
        (pc \in {"us_entry", "ss_entry", "cc_entry"} \/ Rejected)

\* Every histogram passed to wham_us is empty.
AllEmpty ==
    \A w \in DOMAIN hist_list : \A x \in DOMAIN hist_list[w] : hist_list[w][x] = 0

\* C9: when every window histogram is empty, wham_us divides by no zero
\* integral: neither the normalised P of an iteration nor the returned P and
\* F hold a nan.
C9_NoNaNOnEmpty ==
    (pc \in {"wham_loop", "wham_done"} /\ AllEmpty) =>
        /\ \A x \in DOMAIN P : ~IsNaN(P[x])
        /\ pc = "wham_done" =>
              \A x \in DOMAIN ret[1] : ~IsNaN(ret[1][x]) /\ ~ret[2][x].nan

\* C10: wham_us ends after at most 5000 iterations, and when the change of
\* the offsets never fell below the tolerance it returns the last iterate
\* with a third value, a convergence indicator that says so.
C10_ConvergenceIndicator ==
    /\ cnt <= MaxIter
    /\ (pc = "wham_done" /\ cnt = MaxIter) =>
           /\ ret[1] = P
           /\ Len(ret) >= 3
           /\ ret[3] = FALSE

\* C11: for any integers i and j, in [0, L) or not, delta_energy_nb and
\* delta_E_and_dM do not fault and return what they return for the wrapped
\* site (i mod L, j mod L).
C11_IndicesWrap ==
    /\ pc \notin {"de_fault", "dedm_fault"}
    /\ pc = "de_done" => ret = <<delta_energy_nb(lattice, i % L, j % L, J, h)>>
    /\ pc = "dedm_done" => ret = delta_E_and_dM(lattice, i % L, j % L, J, k_bias, M0, M)

\* The total count of the histogram of the window.
HistTotal(hs) == SumTo(hs, Cardinality(DOMAIN hs) - 1)

C13_ShiftIsTotal ==
    /\ pc \in {"ss_eq", "ss_meas", "ss_done"} =>
          \A r \in 0 .. max_r(L) : shifted_sum(lattice, L, r, L * L) = total_sum(lattice)
    /\ (pc \in {"ss_meas", "ss_done"} /\ cnt > 0) =>
          \A r \in 0 .. max_r(L) : shift_sum[r] = total_spin /\ sum_shift[r] = sum_m
    /\ pc = "ss_done" =>
          \A r \in 0 .. max_r(L) :
              ret[2][r] = <<sum_pair[r] * (L * L * n_steps) - sum_m * sum_m,
                            (L * L * n_steps) * (L * L * n_steps)>>

\* C13's case: a finished measurement on the largest lattice, whose rows
\* differ, so that the shift by r = 1 moves spins, with a non-zero total
\* spin in the last step and a non-zero accumulated magnetization.
C13_Witness ==
    /\ pc = "ss_done" /\ L = StatsMaxL /\ n_steps = MaxSteps
    /\ max_r(L) >= 1 /\ lattice[0] # lattice[1]
    /\ total_spin # 0 /\ sum_m # 0
    /\ shift_sum[1] = total_spin /\ sum_shift[1] = sum_m

====
